---- MODULE Spec2Model ----
(***************************************************************************)
(* Model of the LaikaLLM data pipeline: AmazonDataset construction, the    *)
(* leave-one-out split (_split_data) and the per-epoch sub-sequence        *)
(* sampler (sample_train_sequence) of src/src/data/amazon_dataset.py.      *)
(*                                                                         *)
(* A pandas data frame is a sequence of rows; a row is a function from     *)
(* column names to values.  The column "index" carries the row label of    *)
(* the exploded frame (its RangeIndex), so that a row of a partition can   *)
(* be traced back to the position of the interaction it came from.         *)
(***************************************************************************)
EXTENDS Integers, Sequences, FiniteSets, TLC

\* ---------------------------------------------------------------- bounds
NumUsers == 2
MaxN == 6
MaxCalls == 2
MaxL == 5
MaxTasks == 2
MaxEpochs == 2

Users == 1..NumUsers
ItemIdxs == 1..MaxN

VARIABLES
    user_items,             \* _read_sequential: user idx -> ordered item idxs
    meta_dict,              \* item idx -> meta content (a dict, keys optional)
    add_prefix,             \* constructor flag
    items_start_from_1001,  \* constructor flag
    original_df,            \* self.original_df (exploded frame)
    train_df, val_df, test_df,
    pc,                     \* "new" | "ready" | "failed" | "call"
    raised,                 \* exception that left the last operation, or "none"
    n_calls,                \* calls of sample_train_sequence so far
    sample,                 \* argument of the last sample_train_sequence call
    sliding_size, start_index, end_index,   \* its locals
    out_dict,               \* its return value, or NoExample
    trainer,                \* the RecTrainer.train call: position, arguments, counters
    str_alias_obj,          \* Task.str_alias_obj, the alias table of the task classes
    templates_dict,         \* class attribute templates_dict of every task class
    tasks,                  \* the task instances in use
    op,                     \* the last operation on the task engine and its arguments
    task_raised,            \* the exception that left it, or NoError
    task_result             \* what it returned, or NoResult

task_vars == <<str_alias_obj, templates_dict, tasks, op, task_raised, task_result>>

vars == <<user_items, meta_dict, add_prefix, items_start_from_1001, original_df,
          train_df, val_df, test_df, pc, raised, n_calls, sample,
          sliding_size, start_index, end_index, out_dict, trainer, task_vars>>

NoExample == [none |-> TRUE]
NoLocal == 0 - 1

\* ------------------------------------------------------------ python bits
Digits == <<"0", "1", "2", "3", "4", "5", "6", "7", "8", "9">>

RECURSIVE IntStr(_)
IntStr(n) == IF n < 10 THEN Digits[n + 1] ELSE IntStr(n \div 10) \o Digits[(n % 10) + 1]

\* str(x) on a meta value: a string stays itself, a number is printed
PyStr(val) == IF val.t = "str" THEN val.v ELSE IntStr(val.v)

\* dict.get(key, default)
DictGet(d, key, default) == IF key \in DOMAIN d THEN d[key] ELSE default

\* random.randint(a, b): the set of values one draw can return (empty: it raises)
RandInt(a, b) == a..b

\* s[lo:hi] on a list, 0-based, for 0 <= lo <= hi
PySlice(s, lo, hi) ==
    LET h == IF hi > Len(s) THEN Len(s) ELSE hi
    IN IF lo >= h THEN <<>> ELSE SubSeq(s, lo + 1, h)

\* ------------------------------------------------------- the raw inputs
Str(s) == [t |-> "str", v |-> s]
Num(n) == [t |-> "num", v |-> n]

\* meta content of an item with every field present
FullMeta(i) ==
    [description |-> Str("desc" \o IntStr(i)),
     categories |-> [t |-> "list", v |-> << <<"cat" \o IntStr(i), "sub" \o IntStr(i)>>, <<"other">> >>],
     title |-> Str("title" \o IntStr(i)),
     price |-> Num(i),
     imUrl |-> Str("url" \o IntStr(i)),
     brand |-> Str("brand" \o IntStr(i))]

\* meta content with only a title
TitleOnlyMeta(i) == [title |-> Str("title" \o IntStr(i))]

MetaChoices ==
    { [i \in ItemIdxs |-> FullMeta(i)],
      [i \in ItemIdxs |-> IF i = 1 THEN TitleOnlyMeta(i) ELSE FullMeta(i)],
      [i \in ItemIdxs \ {1} |-> FullMeta(i)] }

\* item sequences: all distinct items, or two items alternating
ItemAt(pattern, i) == IF pattern = "distinct" THEN i ELSE ((i - 1) % 2) + 1

Patterns == {"distinct", "repeat"}

ItemSeq(n, p) == [i \in 1..n |-> ItemAt(p, i)]

ItemSeqs == { ItemSeq(n, p) : n \in 0..MaxN, p \in Patterns }

\* the logs read from the file: each user any length, one pattern for the file
UserItemLogs == { [u \in Users |-> ItemSeq(n[u], p)] : n \in [Users -> 0..MaxN], p \in Patterns }

\* ---------------------------------------------------- AmazonDataset.__init__
\* the user / item column values after the id options are applied
UserValue(u, prefix) == [prefix |-> prefix, n |-> u]
ItemValue(i, prefix, from1001) == [prefix |-> prefix, n |-> IF from1001 THEN i + 1000 ELSE i]

\* one row of the exploded frame, without its row label
RecordOf(u, item_idx, meta, prefix, from1001) ==
    LET m == meta[item_idx] IN
    [user_id |-> UserValue(u, prefix),
     item_sequence |-> ItemValue(item_idx, prefix, from1001),
     title_sequence |-> PyStr(DictGet(m, "title", Str(""))),
     description_sequence |-> PyStr(DictGet(m, "description", Str(""))),
     categories_sequence |-> DictGet(m, "categories", [t |-> "list", v |-> << <<>> >>]).v[1],
     price_sequence |-> PyStr(DictGet(m, "price", Str(""))),
     imurl_sequence |-> PyStr(DictGet(m, "imUrl", Str(""))),
     brand_sequence |-> PyStr(DictGet(m, "brand", Str("")))]

\* the rows of users 1..k, in the order of user_items
RECURSIVE Records(_, _, _, _, _)
Records(k, items, meta, prefix, from1001) ==
    IF k = 0 THEN <<>>
    ELSE Records(k - 1, items, meta, prefix, from1001)
         \o [j \in 1..Len(items[k]) |-> RecordOf(k, items[k][j], meta, prefix, from1001)]

\* pd.DataFrame.from_dict: the rows get the RangeIndex 0, 1, ...
DataFrame(records) == [j \in 1..Len(records) |-> records[j] @@ [index |-> j - 1]]

\* meta_dict[item_idx] raises KeyError for an item without meta content
MetaKeyError(items, meta) ==
    \E u \in DOMAIN items : \E j \in 1..Len(items[u]) : items[u][j] \notin DOMAIN meta

\* ------------------------------------------------------------ pandas bits
\* the rows of a frame that belong to the group of key
GroupOf(df, key) == SelectSeq(df, LAMBDA r : r.user_id = key)

GroupKeys(df) == { df[j].user_id : j \in 1..Len(df) }

\* the group keys in ascending order (groupby sorts its keys)
RECURSIVE SortedKeys(_)
SortedKeys(keys) ==
    IF keys = {} THEN <<>>
    ELSE LET least == CHOOSE k \in keys : \A o \in keys : k.n <= o.n
         IN <<least>> \o SortedKeys(keys \ {least})

\* 1-based position of row r within its group, and the size of that group
PosInGroup(df, r) == Cardinality({ j \in 1..Len(df) : df[j].user_id = r.user_id /\ df[j].index <= r.index })
GroupSize(df, r) == Len(GroupOf(df, r.user_id))

\* groupby.nth[:-k]: every row that is not among the last k of its group
NthExceptLast(df, k) == SelectSeq(df, LAMBDA r : PosInGroup(df, r) <= GroupSize(df, r) - k)

\* groupby.nth[-k]: the k-th row from the end of each group that has one
NthFromEnd(df, k) ==
    SelectSeq(df, LAMBDA r : GroupSize(df, r) >= k /\ PosInGroup(df, r) = GroupSize(df, r) - k + 1)

\* DataFrame.rename(columns=mapping) on one row
NewName(mapping, c) == IF c \in DOMAIN mapping THEN mapping[c] ELSE c
RenameRow(r, mapping) ==
    [c \in { NewName(mapping, o) : o \in DOMAIN r } |->
        r[CHOOSE o \in DOMAIN r : NewName(mapping, o) = c]]
Rename(df, mapping) == [j \in 1..Len(df) |-> RenameRow(df[j], mapping)]

\* groupby(by=["user_id"]).agg(list).reset_index(): one row per key, in key
\* order, every other column the list of the group's values in frame order
AggRow(df, key) ==
    LET g == GroupOf(df, key) IN
    [c \in DOMAIN g[1] |-> IF c = "user_id" THEN key ELSE [j \in 1..Len(g) |-> g[j][c]]]
AggList(df) ==
    LET keys == SortedKeys(GroupKeys(df)) IN [j \in 1..Len(keys) |-> AggRow(df, keys[j])]

\* left.merge(right, on="user_id"): inner join, left order; a column held by
\* both sides is kept twice, suffixed _x (left) and _y (right)
Shared(l, r) == (DOMAIN l \cap DOMAIN r) \ {"user_id"}
MergeRow(l, r) ==
    [c \in (DOMAIN l \ Shared(l, r)) |-> l[c]]
    @@ [c \in (DOMAIN r \ Shared(l, r)) |-> r[c]]
    @@ [c \in { o \o "_x" : o \in Shared(l, r) } |-> l[CHOOSE o \in Shared(l, r) : o \o "_x" = c]]
    @@ [c \in { o \o "_y" : o \in Shared(l, r) } |-> r[CHOOSE o \in Shared(l, r) : o \o "_y" = c]]
RECURSIVE Merge(_, _)
Merge(left, right) ==
    IF left = <<>> THEN <<>>
    ELSE LET l == Head(left)
             m == SelectSeq(right, LAMBDA r : r.user_id = l.user_id)
         IN [j \in 1..Len(m) |-> MergeRow(l, m[j])] \o Merge(Tail(left), right)

\* ------------------------------------------------ AmazonDataset._split_data
InputColumns ==
    [item_sequence |-> "input_item_seq",
     description_sequence |-> "input_desc_seq",
     categories_sequence |-> "input_categories_seq",
     title_sequence |-> "input_title_seq",
     price_sequence |-> "input_price_seq",
     imurl_sequence |-> "input_imurl_seq",
     brand_sequence |-> "input_brand_seq"]

GtColumns ==
    [item_sequence |-> "gt_item",
     description_sequence |-> "input_desc_seq",
     categories_sequence |-> "gt_categories",
     title_sequence |-> "gt_title",
     price_sequence |-> "gt_price",
     imurl_sequence |-> "gt_imurl",
     brand_sequence |-> "gt_brand"]

\* variant: the pool keeps the second-to-last record
train_set_keep_one(df) == AggList(NthExceptLast(df, 1))

train_set(df) == AggList(NthExceptLast(df, 2))

\* variant: the validation input drops one record more
input_val_set_short(df) == AggList(Rename(NthExceptLast(df, 3), InputColumns))

\* variant: the validation target is the last record
gt_val_set_last(df) == AggList(Rename(NthFromEnd(df, 1), GtColumns))

input_val_set(df) == AggList(Rename(NthExceptLast(df, 2), InputColumns))
gt_val_set(df) == AggList(Rename(NthFromEnd(df, 2), GtColumns))
val_set(df) == Merge(input_val_set(df), gt_val_set(df))

\* variant: the test input drops the last two records
input_test_set_short(df) == AggList(Rename(NthExceptLast(df, 2), InputColumns))

input_test_set(df) == AggList(Rename(NthExceptLast(df, 1), InputColumns))
gt_test_set(df) == AggList(Rename(NthFromEnd(df, 1), GtColumns))
test_set(df) == Merge(input_test_set(df), gt_test_set(df))

\* _split_data has no raise statement: it returns for every frame
SplitRaises(df) == FALSE

\* ------------------------------------- AmazonDataset.sample_train_sequence
SeqLen(s) == Len(s.item_sequence)

\* the guard of the raise ValueError
\* variant: the guard is off by one
TooShortOffByOne(s) == SeqLen(s) < 1

TooShort(s) == SeqLen(s) < 2

\* variants: one minimum for every length
minimum_sliding_size_one(s) == 1
minimum_sliding_size_two(s) == 2

minimum_sliding_size(s) == IF SeqLen(s) = 2 THEN 1 ELSE 2

\* the values the two random.randint draws can return
SlidingSizes(s) == RandInt(minimum_sliding_size(s), SeqLen(s) - 1)
StartIndexes(s, size) == RandInt(0, SeqLen(s) - size - 1)
EndIndex(start, size) == start + size

\* variant: the titles are sliced one position late and the target price is
\* read at the last position of the window
OutDictMisaligned(s, start, end) ==
    [user_id |-> s.user_id,
     input_item_seq |-> PySlice(s.item_sequence, start, end),
     input_description_seq |-> PySlice(s.description_sequence, start, end),
     input_categories_seq |-> PySlice(s.categories_sequence, start, end),
     input_title_seq |-> PySlice(s.title_sequence, start + 1, end + 1),
     input_price_seq |-> PySlice(s.price_sequence, start, end),
     input_imurl_seq |-> PySlice(s.imurl_sequence, start, end),
     input_brand_seq |-> PySlice(s.brand_sequence, start, end),
     target_item |-> s.item_sequence[end + 1],
     target_description |-> s.description_sequence[end + 1],
     target_categories |-> s.categories_sequence[end + 1],
     target_title |-> s.title_sequence[end + 1],
     target_price |-> s.price_sequence[end],
     target_imurl |-> s.imurl_sequence[end + 1],
     target_brand |-> s.brand_sequence[end + 1]]

\* the returned dict for the drawn window [start, end)
OutDict(s, start, end) ==
    [user_id |-> s.user_id,
     input_item_seq |-> PySlice(s.item_sequence, start, end),
     input_description_seq |-> PySlice(s.description_sequence, start, end),
     input_categories_seq |-> PySlice(s.categories_sequence, start, end),
     input_title_seq |-> PySlice(s.title_sequence, start, end),
     input_price_seq |-> PySlice(s.price_sequence, start, end),
     input_imurl_seq |-> PySlice(s.imurl_sequence, start, end),
     input_brand_seq |-> PySlice(s.brand_sequence, start, end),
     target_item |-> s.item_sequence[end + 1],
     target_description |-> s.description_sequence[end + 1],
     target_categories |-> s.categories_sequence[end + 1],
     target_title |-> s.title_sequence[end + 1],
     target_price |-> s.price_sequence[end + 1],
     target_imurl |-> s.imurl_sequence[end + 1],
     target_brand |-> s.brand_sequence[end + 1]]

\* the ValueError of the sampler's raise statement, and the one random.randint
\* raises for an empty range
TooFewItems == "ValueError: has less than 2 items in its order history"
EmptyRange == "ValueError: empty range for randrange()"

\* one call sample_train_sequence(s): the exception or the returned dict
SamplerRaise(exc) ==
    /\ raised' = exc
    /\ out_dict' = NoExample
    /\ sliding_size' = NoLocal /\ start_index' = NoLocal /\ end_index' = NoLocal

sample_train_sequence(s) ==
    /\ sample' = s
    /\ n_calls' = n_calls + 1
    /\ IF TooShort(s) \/ SlidingSizes(s) = {}
       THEN SamplerRaise(IF TooShort(s) THEN TooFewItems ELSE EmptyRange)
       ELSE \E size \in SlidingSizes(s) :
              IF StartIndexes(s, size) = {}
              THEN SamplerRaise(EmptyRange)
              ELSE \E start \in StartIndexes(s, size) :
                     LET end == EndIndex(start, size) IN
                     IF end + 1 > SeqLen(s)
                     THEN SamplerRaise("IndexError")
                     ELSE /\ raised' = "none"
                          /\ sliding_size' = size
                          /\ start_index' = start
                          /\ end_index' = end
                          /\ out_dict' = OutDict(s, start, end)

\* ------------------------------------------------- templates.py: the tasks
\* Names that are looked up by letter case are sequences of characters.
UpperLetters == <<"A", "B", "C", "D", "E", "F", "G", "H", "I", "J", "K", "L", "M",
                  "N", "O", "P", "Q", "R", "S", "T", "U", "V", "W", "X", "Y", "Z">>
LowerLetters == <<"a", "b", "c", "d", "e", "f", "g", "h", "i", "j", "k", "l", "m",
                  "n", "o", "p", "q", "r", "s", "t", "u", "v", "w", "x", "y", "z">>

\* str.lower()
LowerChar(c) ==
    IF \E i \in DOMAIN UpperLetters : UpperLetters[i] = c
    THEN LowerLetters[CHOOSE i \in DOMAIN UpperLetters : UpperLetters[i] = c]
    ELSE c
Lower(name) == [i \in 1..Len(name) |-> LowerChar(name[i])]

\* the task classes templates.py defines under Task, and cls.__name__
TaskClasses == <<"SequentialTask">>
ClassName(cls) ==
    CASE cls = "SequentialTask" ->
           <<"S", "e", "q", "u", "e", "n", "t", "i", "a", "l", "T", "a", "s", "k">>

\* variant: a plain dict, keys kept as written
AliasKeyExact(key) == key

\* CaseInsensitiveDict: the key under which an alias is stored and looked up
AliasKey(key) == Lower(key)

\* d[key] = value, key in d and d[key] of the alias table
AliasSet(d, key, value) ==
    [k \in DOMAIN d \cup {AliasKey(key)} |-> IF k = AliasKey(key) THEN value ELSE d[k]]
AliasHas(d, key) == AliasKey(key) \in DOMAIN d
AliasGet(d, key) == d[AliasKey(key)]

\* Task.__init_subclass__ for the classes 1..k, in definition order
RECURSIVE InitSubclasses(_)
InitSubclasses(k) ==
    IF k = 0 THEN <<>>
    ELSE AliasSet(InitSubclasses(k - 1), ClassName(TaskClasses[k]), TaskClasses[k])

\* a PromptTarget; each pattern is the list of its pieces around the {} fields
PromptTarget(input_prompt, target_text) ==
    [input_prompt |-> input_prompt, target_text |-> target_text]

SequentialTemplates ==
    [k \in 0..5 |->
       CASE k = 0 -> PromptTarget(
                <<"sequential_rec for ",
                  ": \n\nPredict for the user the next element of the following sequence -> \n",
                  "">>, <<"", "">>)
         [] k = 1 -> PromptTarget(
                <<"sequential_rec for ",
                  ": \n\nPredict the next element which the user will buy given the following order history -> \n",
                  "">>, <<"", "">>)
         [] k = 2 -> PromptTarget(
                <<"sequential_rec for ",
                  ": \n\nWhat is the element that should be recommended to the user knowing that it has bought -> \n",
                  "">>, <<"", "">>)
         [] k = 3 -> PromptTarget(
                <<"sequential_rec for ",
                  ": \n\nRecommend to the user an item from the catalog given its order history -> \n",
                  "">>, <<"", "">>)
         [] k = 4 -> PromptTarget(
                <<"sequential_rec for ",
                  ": \n\nThis is the order history of the user -> \n",
                  " \nRecommend the next element that the user will buy">>, <<"", "">>)
         [] k = 5 -> PromptTarget(
                <<"sequential_rec for ",
                  ": \n\nPlease predict what item is best to recommend to the user given its order history -> \n",
                  "">>, <<"", "">>)]

\* the class attribute templates_dict as the class body sets it
ClassTemplates(cls) == CASE cls = "SequentialTask" -> SequentialTemplates

\* the arguments validate_args is given for the class's __call__
MandatoryArgsShort(cls) == CASE cls = "SequentialTask" -> <<"user_id", "input_item_seq">>

MandatoryArgs(cls) == CASE cls = "SequentialTask" -> <<"user_id", "input_item_seq", "target_item">>

\* repr(self)
Repr(task) == task.cls

\* cls(): a new instance has no attribute of its own
NewTask(cls) == [cls |-> cls, has_templates_dict |-> FALSE, own_templates_dict |-> <<>>]

\* variant: the class attribute, whatever the instance holds
SelfTemplatesDictOfClass(cls_dicts, task) == cls_dicts[task.cls]

\* self.templates_dict: the instance attribute when set, else the class's
SelfTemplatesDict(cls_dicts, task) ==
    IF task.has_templates_dict THEN task.own_templates_dict ELSE cls_dicts[task.cls]

\* variant: the dict the id is looked up in is the instance's
ForceSourceSelf(cls_dicts, task) == SelfTemplatesDict(cls_dicts, task)

\* self.__class__.templates_dict
ForceSource(cls_dicts, task) == cls_dicts[task.cls]

\* list(d.keys()) of a dict with ascending integer keys
RECURSIVE KeyList(_)
KeyList(keys) ==
    IF keys = {} THEN <<>>
    ELSE LET least == CHOOSE k \in keys : \A o \in keys : k <= o
         IN <<least>> \o KeyList(keys \ {least})

\* self.all_templates
all_templates(cls_dicts, task) ==
    LET d == SelfTemplatesDict(cls_dicts, task)
        keys == KeyList(DOMAIN d)
    IN [j \in 1..Len(keys) |-> d[keys[j]]]

\* pattern.format(*args): the pieces with the arguments between them
RECURSIVE Format(_, _)
Format(pieces, args) ==
    IF Len(pieces) = 1 THEN pieces[1]
    ELSE pieces[1] \o args[1] \o Format(Tail(pieces), Tail(args))

\* separator.join(items)
RECURSIVE Join(_, _)
Join(separator, items) ==
    IF items = <<>> THEN ""
    ELSE IF Len(items) = 1 THEN items[1]
    ELSE items[1] \o separator \o Join(separator, Tail(items))

\* " , " if random.getrandbits(1) else " ; "
Separator(bit) == IF bit = 1 THEN " , " ELSE " ; "

NoError == [exc |-> "none"]
NoResult == [kind |-> "none"]
NoOp == [name |-> "none"]

\* the first mandatory argument kwargs does not hold, as a one-element set
FirstMissing(mandatory, kwargs) ==
    { mandatory[i] : i \in { j \in DOMAIN mandatory :
                               /\ mandatory[j] \notin DOMAIN kwargs
                               /\ \A h \in 1..(j - 1) : mandatory[h] \in DOMAIN kwargs } }

\* the exception that leaves task(**kwargs) before anything is drawn: the
\* assert of the validate_args wrapper, or the KeyError of a kwargs[...] read
\* in the body; NoError when the arguments are complete
CallRaises(task, kwargs) ==
    LET missing == FirstMissing(MandatoryArgs(task.cls), kwargs)
        used == {"user_id", "input_item_seq", "target_item"} \ DOMAIN kwargs
    IN IF missing # {}
       THEN [exc |-> "AssertionError",
             field |-> CHOOSE f \in missing : TRUE,
             task |-> Repr(task)]
       ELSE IF used # {}
       THEN [exc |-> "KeyError",
             field |-> IF "user_id" \in used THEN "user_id"
                       ELSE IF "input_item_seq" \in used THEN "input_item_seq"
                       ELSE "target_item"]
       ELSE NoError

\* SequentialTask.__call__ behind the validate_args wrapper, with the outcome
\* of random.choice (a position of all_templates) and of random.getrandbits
Call(cls_dicts, task, kwargs, choice, bit) ==
    IF CallRaises(task, kwargs) # NoError
    THEN [raised |-> CallRaises(task, kwargs), result |-> NoResult]
    ELSE LET chosen == all_templates(cls_dicts, task)[choice]
             order_history_str == Join(Separator(bit), kwargs.input_item_seq)
         IN [raised |-> NoError,
             result |-> [kind |-> "pair",
                         input_text |-> Format(chosen.input_prompt,
                                               <<kwargs.user_id, order_history_str>>),
                         target_text |-> Format(chosen.target_text, <<kwargs.target_item>>)]]

\* the inputs of the task engine
Aliases ==
    { ClassName("SequentialTask"),
      Lower(ClassName("SequentialTask")),
      <<"S", "E", "Q", "U", "E", "N", "T", "I", "A", "L", "T", "A", "S", "K">>,
      <<"s", "e", "q", "u", "e", "n", "t", "i", "a", "l">>,
      <<"T", "a", "s", "k">> }

AliasLists == UNION { [1..n -> Aliases] : n \in 0..MaxTasks }

ForceIds == (0 - 1)..6

CallKwargs ==
    LET full == { [user_id |-> "user_1", input_item_seq |-> h, target_item |-> "item_3"] :
                    h \in { <<"item_1">>, <<"item_1", "item_2">> } }
        names == {"user_id", "input_item_seq", "target_item"}
    IN { [f \in present |-> kw[f]] : kw \in full, present \in SUBSET names }

\* the task engine after templates.py is imported
TaskInit ==
    /\ str_alias_obj = InitSubclasses(Len(TaskClasses))
    /\ templates_dict = [c \in { TaskClasses[i] : i \in DOMAIN TaskClasses } |-> ClassTemplates(c)]
    /\ tasks = <<>>
    /\ op = NoOp
    /\ task_raised = NoError
    /\ task_result = NoResult

\* Task.from_string(*task_str)
from_string(task_str) ==
    /\ tasks = <<>>
    /\ op' = [name |-> "from_string", task_str |-> task_str]
    /\ IF \E i \in DOMAIN task_str : ~AliasHas(str_alias_obj, task_str[i])
       THEN /\ task_raised' = [exc |-> "KeyError",
                               message |-> "One or more task string alias does not exist!"]
            /\ task_result' = NoResult
            /\ UNCHANGED tasks
       ELSE LET instantiated_task ==
                    [i \in DOMAIN task_str |-> NewTask(AliasGet(str_alias_obj, task_str[i]))]
            IN /\ task_raised' = NoError
               /\ task_result' = [kind |-> "tasks", tasks |-> instantiated_task]
               /\ tasks' = instantiated_task
    /\ UNCHANGED <<str_alias_obj, templates_dict>>

\* task.force_template(force_template_id) on the task at position i
force_template(i, force_template_id) ==
    /\ i \in DOMAIN tasks
    /\ op' = [name |-> "force_template", task |-> i, id |-> force_template_id, before |-> tasks[i]]
    /\ IF force_template_id \notin DOMAIN ForceSource(templates_dict, tasks[i])
       THEN /\ task_raised' = [exc |-> "KeyError",
                               id |-> force_template_id,
                               available |-> KeyList(DOMAIN SelfTemplatesDict(templates_dict, tasks[i]))]
            /\ task_result' = NoResult
            /\ UNCHANGED tasks
       ELSE /\ task_raised' = NoError
            /\ tasks' = [tasks EXCEPT ![i] =
                           [cls |-> tasks[i].cls,
                            has_templates_dict |-> TRUE,
                            own_templates_dict |->
                               [k \in {force_template_id} |->
                                  ForceSource(templates_dict, tasks[i])[force_template_id]]]]
            /\ task_result' = [kind |-> "self", task |-> i]
    /\ UNCHANGED <<str_alias_obj, templates_dict>>

\* task(**kwargs) on the task at position i
call(i, kwargs) ==
    /\ i \in DOMAIN tasks
    /\ op' = [name |-> "call", task |-> i, kwargs |-> kwargs, before |-> tasks[i]]
    /\ IF CallRaises(tasks[i], kwargs) # NoError
       THEN /\ task_raised' = CallRaises(tasks[i], kwargs)
            /\ task_result' = NoResult
       ELSE \E choice \in DOMAIN all_templates(templates_dict, tasks[i]) : \E bit \in {0, 1} :
              LET out == Call(templates_dict, tasks[i], kwargs, choice, bit) IN
              /\ task_raised' = out.raised
              /\ task_result' = out.result
    /\ UNCHANGED <<str_alias_obj, templates_dict, tasks>>

\* ------------------------------------------------ trainer.py: RecTrainer.train
\* range(start=1, stop=...): range() takes no keyword arguments
RangeTakesKeywords == FALSE

TrainerIdle == [pc |-> "idle"]

\* Dataset.map(fn, batched=True) calls fn once per batch of rows; the rows of
\* the model fit in one batch
BatchedMapCalls(rows) == IF rows = 0 THEN 0 ELSE 1

\* trainer.train(train_dataset, validation_dataset) with self.n_epochs = n
train(n, with_validation) ==
    IF ~RangeTakesKeywords
    THEN trainer' = [pc |-> "failed",
                     raised |-> "TypeError: range() takes no keyword arguments",
                     n_epochs |-> n, with_validation |-> with_validation,
                     epochs |-> 0, sampler_calls |-> 0, sampled_rows |-> 0,
                     evaluate_calls |-> 0]
    ELSE trainer' = [pc |-> "done",
                     raised |-> "none",
                     n_epochs |-> n, with_validation |-> with_validation,
                     epochs |-> n,
                     sampler_calls |-> n * BatchedMapCalls(Len(train_df)),
                     sampled_rows |-> n * Len(train_df),
                     evaluate_calls |-> IF with_validation THEN n ELSE 0]

\* -------------------------------------------------------------- the system
Configs == { <<FALSE, FALSE>>, <<TRUE, TRUE>> }

Init ==
    /\ user_items \in UserItemLogs
    /\ meta_dict \in MetaChoices
    /\ \E c \in Configs : add_prefix = c[1] /\ items_start_from_1001 = c[2]
    /\ original_df = <<>> /\ train_df = <<>> /\ val_df = <<>> /\ test_df = <<>>
    /\ pc = "new"
    /\ raised = "none"
    /\ n_calls = 0
    /\ sample = NoExample
    /\ sliding_size = NoLocal /\ start_index = NoLocal /\ end_index = NoLocal
    /\ out_dict = NoExample
    /\ trainer = TrainerIdle
    /\ TaskInit

\* AmazonDataset(...): builds the exploded frame and splits it
Construct ==
    /\ pc = "new"
    /\ IF MetaKeyError(user_items, meta_dict)
       THEN /\ pc' = "failed"
            /\ raised' = "KeyError"
            /\ UNCHANGED <<original_df, train_df, val_df, test_df>>
       ELSE LET df == DataFrame(Records(NumUsers, user_items, meta_dict,
                                        add_prefix, items_start_from_1001))
            IN /\ original_df' = df
               /\ IF SplitRaises(df)
                  THEN /\ pc' = "failed"
                       /\ raised' = "InsufficientHistoryError"
                       /\ UNCHANGED <<train_df, val_df, test_df>>
                  ELSE /\ pc' = "ready"
                       /\ raised' = "none"
                       /\ train_df' = train_set(df)
                       /\ val_df' = val_set(df)
                       /\ test_df' = test_set(df)
    /\ UNCHANGED <<user_items, meta_dict, add_prefix, items_start_from_1001,
                   n_calls, sample, sliding_size, start_index, end_index, out_dict,
                   trainer, task_vars>>

\* one call of the sampler on a row of the train pool (any row, any epoch)
SampleTrainRow ==
    /\ pc = "ready"
    /\ n_calls < MaxCalls
    /\ \E j \in 1..Len(train_df) : sample_train_sequence(train_df[j])
    /\ UNCHANGED <<user_items, meta_dict, add_prefix, items_start_from_1001,
                   original_df, train_df, val_df, test_df, pc, trainer, task_vars>>

Next == Construct \/ SampleTrainRow

Spec == Init /\ [][Next]_vars

\* ------------------------------------------- the sampler as a pure function
\* a row as the sampler takes it: every column but user_id is a list
SampleRow(u, items, meta, prefix, from1001) ==
    LET recs == DataFrame([j \in 1..Len(items) |-> RecordOf(u, items[j], meta, prefix, from1001)])
        cols == DOMAIN RecordOf(u, 1, meta, prefix, from1001) \cup {"index"}
    IN [c \in cols |-> IF c = "user_id" THEN UserValue(u, prefix)
                                       ELSE [j \in 1..Len(recs) |-> recs[j][c]]]

SampleRows ==
    { SampleRow(u, items, meta, c[1], c[2]) :
        u \in Users, items \in { q \in ItemSeqs : Len(q) <= MaxL },
        meta \in { m \in MetaChoices : DOMAIN m = ItemIdxs }, c \in Configs }

InitSampler ==
    /\ user_items = [u \in Users |-> <<>>]
    /\ meta_dict = [i \in ItemIdxs |-> FullMeta(i)]
    /\ add_prefix = FALSE /\ items_start_from_1001 = FALSE
    /\ original_df = <<>> /\ train_df = <<>> /\ val_df = <<>> /\ test_df = <<>>
    /\ pc = "call"
    /\ raised = "none"
    /\ n_calls = 0
    /\ sample = NoExample
    /\ sliding_size = NoLocal /\ start_index = NoLocal /\ end_index = NoLocal
    /\ out_dict = NoExample
    /\ trainer = TrainerIdle
    /\ TaskInit

\* one call of the sampler on any row
SampleAnyRow ==
    /\ pc = "call"
    /\ n_calls < MaxCalls
    /\ \E s \in SampleRows : sample_train_sequence(s)
    /\ UNCHANGED <<user_items, meta_dict, add_prefix, items_start_from_1001,
                   original_df, train_df, val_df, test_df, pc, trainer, task_vars>>

NextSampler == SampleAnyRow

SpecSampler == InitSampler /\ [][NextSampler]_vars

\* ------------------------------------------------------ the training run
data_vars == <<user_items, meta_dict, add_prefix, items_start_from_1001, original_df,
               train_df, val_df, test_df, pc, raised, n_calls, sample,
               sliding_size, start_index, end_index, out_dict>>

InitTrainer ==
    /\ user_items \in UserItemLogs
    /\ meta_dict = [i \in ItemIdxs |-> FullMeta(i)]
    /\ add_prefix = TRUE /\ items_start_from_1001 = TRUE
    /\ original_df = <<>> /\ train_df = <<>> /\ val_df = <<>> /\ test_df = <<>>
    /\ pc = "new"
    /\ raised = "none"
    /\ n_calls = 0
    /\ sample = NoExample
    /\ sliding_size = NoLocal /\ start_index = NoLocal /\ end_index = NoLocal
    /\ out_dict = NoExample
    /\ trainer = TrainerIdle
    /\ TaskInit

\* one training run on the partitions of the dataset
Train ==
    /\ pc = "ready"
    /\ trainer.pc = "idle"
    /\ \E n \in 0..MaxEpochs : \E with_validation \in BOOLEAN : train(n, with_validation)
    /\ UNCHANGED <<data_vars, task_vars>>

NextTrainer == Construct \/ Train

SpecTrainer == InitTrainer /\ [][NextTrainer]_vars

\* ------------------------------------------------------- the task engine
InitTask ==
    /\ user_items = [u \in Users |-> <<>>]
    /\ meta_dict = [i \in ItemIdxs |-> FullMeta(i)]
    /\ add_prefix = FALSE /\ items_start_from_1001 = FALSE
    /\ original_df = <<>> /\ train_df = <<>> /\ val_df = <<>> /\ test_df = <<>>
    /\ pc = "tasks"
    /\ raised = "none"
    /\ n_calls = 0
    /\ sample = NoExample
    /\ sliding_size = NoLocal /\ start_index = NoLocal /\ end_index = NoLocal
    /\ out_dict = NoExample
    /\ trainer = TrainerIdle
    /\ TaskInit

FromString ==
    /\ pc = "tasks"
    /\ \E task_str \in AliasLists : from_string(task_str)
    /\ UNCHANGED <<data_vars, trainer>>

ForceTemplate ==
    /\ pc = "tasks"
    /\ \E i \in DOMAIN tasks : \E k \in ForceIds : force_template(i, k)
    /\ UNCHANGED <<data_vars, trainer>>

Render ==
    /\ pc = "tasks"
    /\ \E i \in DOMAIN tasks : \E kwargs \in CallKwargs : call(i, kwargs)
    /\ UNCHANGED <<data_vars, trainer>>

NextTask == FromString \/ ForceTemplate \/ Render

SpecTask == InitTask /\ [][NextTask]_vars

\* ------------------------------------------------------------- properties
\* number of interaction records of user u, and u's key in the frames
NRecords(u) == Len(user_items[u])
KeyOf(u) == UserValue(u, add_prefix)

\* the rows of user u in a partition, and u's records in the exploded frame
RowsOf(df, u) == SelectSeq(df, LAMBDA r : r.user_id = KeyOf(u))
History(u) == GroupOf(original_df, KeyOf(u))

\* the split has run
Split == pc = "ready"

\* column by column, the list cells of a row hold records lo..hi (1-based)
\* of the history h
HoldsRecords(row, cols, idx, h, lo, hi) ==
    /\ row[idx] = [j \in 1..(hi - lo + 1) |-> h[lo + j - 1].index]
    /\ \A c \in DOMAIN cols :
         row[cols[c]] = [j \in 1..(hi - lo + 1) |-> h[lo + j - 1][c]]

\* the input columns of a merged row; description is the column both sides
\* of the merge hold, so the input side carries the suffix _x, the target _y
MergedInput == [c \in DOMAIN InputColumns |->
                  IF c = "description_sequence" THEN "input_desc_seq_x" ELSE InputColumns[c]]
MergedGt == [c \in DOMAIN GtColumns |->
               IF c = "description_sequence" THEN "input_desc_seq_y" ELSE GtColumns[c]]
TrainColumns == [c \in DOMAIN InputColumns |-> c]

\* the item column of the exploded frame is the raw log, id options applied
HistoryIsLog(u) ==
    /\ Len(History(u)) = NRecords(u)
    /\ \A j \in 1..NRecords(u) :
         History(u)[j].item_sequence = ItemValue(user_items[u][j], add_prefix, items_start_from_1001)

\* row labels of the targets the split fixed for the user of key k
ValTargets(k) == { val_df[j].index_y[1] : j \in { i \in 1..Len(val_df) : val_df[i].user_id = k } }
TestTargets(k) == { test_df[j].index_y[1] : j \in { i \in 1..Len(test_df) : test_df[i].user_id = k } }

\* C1: no interaction that the split uses as a user's validation or test
\* target is the target of an example sampled from that user's train-pool
\* row, whatever the draws and however many times the sampler is called.
C1_NoTargetLeak ==
    (Split /\ out_dict # NoExample) =>
        LET label == sample.index[end_index + 1] IN
        /\ out_dict.target_item = original_df[label + 1].item_sequence
        /\ original_df[label + 1].user_id = out_dict.user_id
        /\ label \notin ValTargets(out_dict.user_id)
        /\ label \notin TestTargets(out_dict.user_id)

C1_Witness ==
    /\ Split /\ out_dict # NoExample /\ n_calls = MaxCalls
    /\ ValTargets(out_dict.user_id) # {} /\ TestTargets(out_dict.user_id) # {}
    /\ start_index > 0

\* C2: a user with N >= 2 records has exactly one test row; its input is
\* records [0, N-1) in original order, its target the record at index N-1.
C2_TestRow ==
    Split => \A u \in Users : NRecords(u) >= 2 =>
        LET rows == RowsOf(test_df, u)
            n == NRecords(u)
        IN /\ HistoryIsLog(u)
           /\ Len(rows) = 1
           /\ HoldsRecords(rows[1], MergedInput, "index_x", History(u), 1, n - 1)
           /\ HoldsRecords(rows[1], MergedGt, "index_y", History(u), n, n)

C2_Witness ==
    /\ Split
    /\ \E u \in Users : NRecords(u) = 2 /\ Len(RowsOf(test_df, u)) = 1
    /\ \E u \in Users : NRecords(u) >= 4 /\ Len(RowsOf(test_df, u)) = 1

\* C3: a validation row has input records [0, N-2) in original order and
\* target the record at index N-2; validation input, validation target and
\* test target together are the user's original sequence.
C3_ValRow ==
    Split => \A u \in Users : RowsOf(val_df, u) # <<>> =>
        LET rows == RowsOf(val_df, u)
            test == RowsOf(test_df, u)
            n == NRecords(u)
        IN /\ HistoryIsLog(u)
           /\ Len(rows) = 1 /\ Len(test) = 1
           /\ HoldsRecords(rows[1], MergedInput, "index_x", History(u), 1, n - 2)
           /\ HoldsRecords(rows[1], MergedGt, "index_y", History(u), n - 1, n - 1)
           /\ rows[1].input_item_seq \o rows[1].gt_item \o test[1].gt_item
                = [j \in 1..n |-> History(u)[j].item_sequence]
           /\ rows[1].index_x \o rows[1].index_y \o test[1].index_y
                = [j \in 1..n |-> History(u)[j].index]

C3_Witness ==
    /\ Split
    /\ \E u \in Users : NRecords(u) = 3 /\ RowsOf(val_df, u) # <<>>
    /\ \E u \in Users : NRecords(u) >= 5 /\ RowsOf(val_df, u) # <<>>

\* the train pool of user u is one row holding records [0, k)
TrainPoolIs(u, k) ==
    /\ Len(RowsOf(train_df, u)) = 1
    /\ HoldsRecords(RowsOf(train_df, u)[1], TrainColumns, "index", History(u), 1, k)

InAllThree(u) ==
    /\ RowsOf(train_df, u) # <<>>
    /\ RowsOf(val_df, u) # <<>>
    /\ RowsOf(test_df, u) # <<>>

C6_AsStated ==
    (pc # "new" /\ ~MetaKeyError(user_items, meta_dict)
       /\ \E u \in Users : NRecords(u) = 1)
    => (pc = "failed" /\ raised = "InsufficientHistoryError")

\* the sampler has been called and has returned an example
Returned == n_calls > 0 /\ raised = "none" /\ out_dict # NoExample

\* C7: for a sequence of length L >= 3 the sampler returns a window of
\* length w, 2 <= w <= L-1, starting at start >= 0, and its target is the
\* element at index start + w < L, the one right after the window.
C7_WindowBounds ==
    (n_calls > 0 /\ SeqLen(sample) >= 3) =>
        LET w == Len(out_dict.input_item_seq)
            L == SeqLen(sample)
        IN /\ Returned
           /\ w = sliding_size /\ 2 <= w /\ w <= L - 1
           /\ start_index >= 0 /\ start_index + w < L
           /\ end_index = start_index + w
           /\ \A k \in 1..w : out_dict.input_item_seq[k] = sample.item_sequence[start_index + k]
           /\ out_dict.target_item = sample.item_sequence[start_index + w + 1]

C7_Witness ==
    /\ Returned /\ SeqLen(sample) = 4
    /\ Len(out_dict.input_item_seq) = 2 /\ start_index = 1
    /\ out_dict.target_item = sample.item_sequence[4]

\* the sampler's metadata columns: source column, input field, target field
MetaFields ==
    { <<"description_sequence", "input_description_seq", "target_description">>,
      <<"categories_sequence", "input_categories_seq", "target_categories">>,
      <<"title_sequence", "input_title_seq", "target_title">>,
      <<"price_sequence", "input_price_seq", "target_price">>,
      <<"imurl_sequence", "input_imurl_seq", "target_imurl">>,
      <<"brand_sequence", "input_brand_seq", "target_brand">> }

\* C8: in a returned example every metadata input sequence has the length
\* of input_item_seq and holds, index for index, the source row's metadata
\* at the positions the items come from; every target field comes from the
\* position of target_item.
C8_FieldAlignment ==
    Returned =>
        LET w == Len(out_dict.input_item_seq) IN
        /\ \A k \in 1..w : out_dict.input_item_seq[k] = sample.item_sequence[start_index + k]
        /\ out_dict.target_item = sample.item_sequence[end_index + 1]
        /\ \A f \in MetaFields :
             /\ Len(out_dict[f[2]]) = w
             /\ \A k \in 1..w : out_dict[f[2]][k] = sample[f[1]][start_index + k]
             /\ out_dict[f[3]] = sample[f[1]][end_index + 1]

C8_Witness ==
    /\ Returned /\ Len(out_dict.input_item_seq) >= 2 /\ start_index > 0
    /\ out_dict.input_title_seq[1] # out_dict.input_title_seq[2]
    /\ out_dict.target_price # out_dict.input_price_seq[2]

\* C9: for a sequence of length 2 the sampler returns the first item alone
\* as input and the second item as target, whatever the draws.
C9_LengthTwo ==
    (n_calls > 0 /\ SeqLen(sample) = 2) =>
        /\ Returned
        /\ out_dict.input_item_seq = <<sample.item_sequence[1]>>
        /\ out_dict.target_item = sample.item_sequence[2]

C9_Witness == Returned /\ SeqLen(sample) = 2 /\ Len(out_dict.input_item_seq) = 1

\* C10: for a sequence of length 0 or 1 the sampler fails with the error
\* for a too short order history and returns no example.
C10_TooShortFails ==
    (n_calls > 0 /\ SeqLen(sample) < 2) =>
        /\ raised = TooFewItems
        /\ out_dict = NoExample

C10_Witness == n_calls > 0 /\ SeqLen(sample) = 0 /\ raised = TooFewItems

\* the metadata cells of a frame row are the defaults of an item without
\* meta content: empty strings and an empty category list
DefaultedRecord(r) ==
    /\ r.title_sequence = "" /\ r.description_sequence = ""
    /\ r.categories_sequence = <<>> /\ r.price_sequence = ""
    /\ r.imurl_sequence = "" /\ r.brand_sequence = ""

\* C16 as stated: when a user's log references an item that the metadata
\* lookup does not hold, construction does not fail and the interaction
\* record is created with its metadata fields defaulted.
C16_AsStated ==
    (pc # "new" /\ MetaKeyError(user_items, meta_dict)) =>
        /\ pc = "ready" /\ raised = "none"
        /\ \A u \in Users :
             /\ Len(History(u)) = NRecords(u)
             /\ \A j \in 1..NRecords(u) :
                  user_items[u][j] \notin DOMAIN meta_dict => DefaultedRecord(History(u)[j])

\* C18 as stated: every row the split places in the train pool has length
\* >= 2, and the sampler applied to a train-pool row returns an example and
\* does not raise.
C18_AsStated ==
    Split =>
        /\ \A j \in 1..Len(train_df) : SeqLen(train_df[j]) >= 2
        /\ n_calls > 0 => (raised = "none" /\ out_dict # NoExample)

\* ------------------------------------------------ properties of the tasks
\* the id an instance is pinned to
PinnedId(task) == CHOOSE k \in DOMAIN task.own_templates_dict : TRUE

\* the text pair template k of class cls gives for kwargs with separator bit
Rendering(cls, k, kwargs, bit) ==
    [kind |-> "pair",
     input_text |-> Format(ClassTemplates(cls)[k].input_prompt,
                           <<kwargs.user_id, Join(Separator(bit), kwargs.input_item_seq)>>),
     target_text |-> Format(ClassTemplates(cls)[k].target_text, <<kwargs.target_item>>)]

\* C11: a render of an instance that force_template(k) has pinned uses the
\* input and target pattern of template k, for every template and separator
\* draw, and leaves the instance pinned to k for the renders that follow.
C11_PinnedRender ==
    (op.name = "call" /\ op.before.has_templates_dict /\ task_raised = NoError) =>
        /\ tasks[op.task] = op.before
        /\ \E bit \in {0, 1} :
             task_result = Rendering(op.before.cls, PinnedId(op.before), op.kwargs, bit)

C11_Witness ==
    /\ op.name = "call" /\ op.before.has_templates_dict /\ task_raised = NoError
    /\ PinnedId(op.before) = 4
    /\ Len(op.kwargs.input_item_seq) = 2
    /\ task_result = Rendering(op.before.cls, 4, op.kwargs, 0)

\* C12 as stated: force_template with an id outside the variant's template
\* set fails, on a pinned or an unpinned instance, with an error that lists
\* the valid ids of the variant's template set.
C12_AsStated ==
    (op.name = "force_template" /\ op.id \notin DOMAIN ClassTemplates(op.before.cls)) =>
        /\ task_raised.exc = "KeyError"
        /\ task_raised.available = KeyList(DOMAIN ClassTemplates(op.before.cls))

\* C13: a render without one of the mandatory fields fails with an error
\* that names a missing field and the task, and gives no text pair.
C13_MissingArgument ==
    (op.name = "call"
       /\ \E f \in {"user_id", "input_item_seq", "target_item"} : f \notin DOMAIN op.kwargs) =>
        /\ task_raised.exc = "AssertionError"
        /\ task_raised.field \in {"user_id", "input_item_seq", "target_item"} \ DOMAIN op.kwargs
        /\ task_raised.task = op.before.cls
        /\ task_result = NoResult

C13_Witness ==
    /\ op.name = "call"
    /\ DOMAIN op.kwargs = {"user_id", "input_item_seq"}
    /\ task_raised.exc = "AssertionError" /\ task_raised.field = "target_item"

\* the registered class whose name equals the alias up to letter case
RegisteredAs(alias) ==
    { TaskClasses[i] : i \in { j \in DOMAIN TaskClasses :
                                 Lower(ClassName(TaskClasses[j])) = Lower(alias) } }

\* C14: from_string returns, alias by alias, a new instance of the class
\* whose name equals the alias up to letter case, and fails with the
\* unknown-alias error, returning nothing, when an alias matches no class.
C14_FromString ==
    op.name = "from_string" =>
        IF \A i \in DOMAIN op.task_str : RegisteredAs(op.task_str[i]) # {}
        THEN /\ task_raised = NoError
             /\ task_result.kind = "tasks"
             /\ Len(task_result.tasks) = Len(op.task_str)
             /\ \A i \in DOMAIN op.task_str :
                  /\ task_result.tasks[i].cls \in RegisteredAs(op.task_str[i])
                  /\ ~task_result.tasks[i].has_templates_dict
        ELSE /\ task_raised.exc = "KeyError"
             /\ task_result = NoResult
             /\ tasks = <<>>

C14_Witness ==
    /\ op.name = "from_string" /\ task_raised = NoError
    /\ Len(op.task_str) = 2
    /\ op.task_str[1] = Lower(ClassName("SequentialTask"))
    /\ op.task_str[2] # ClassName("SequentialTask") /\ op.task_str[2] # op.task_str[1]
    /\ task_result.tasks[2].cls = "SequentialTask"

\* C17: the class-level template set is never changed, and force_template(k)
\* with any id k of that set succeeds and pins k, also on an instance that
\* is pinned to another id.
C17_CanonicalKept ==
    /\ templates_dict = [c \in DOMAIN templates_dict |-> ClassTemplates(c)]
    /\ (op.name = "force_template" /\ op.id \in DOMAIN ClassTemplates(op.before.cls)) =>
          /\ task_raised = NoError
          /\ tasks[op.task].has_templates_dict
          /\ tasks[op.task].own_templates_dict
               = [k \in {op.id} |-> ClassTemplates(op.before.cls)[op.id]]

C17_Witness ==
    /\ op.name = "force_template" /\ task_raised = NoError
    /\ op.before.has_templates_dict /\ PinnedId(op.before) # op.id
    /\ PinnedId(tasks[op.task]) = op.id

\* C15 as stated: a training run of n epochs invokes the sampler once per
\* row of the train dataset in each of its epochs.
C15_AsStated ==
    trainer.pc \in {"done", "failed"} =>
        /\ trainer.raised = "none"
        /\ trainer.epochs = trainer.n_epochs
        /\ trainer.sampler_calls = trainer.n_epochs * Len(train_df)

====
